---------------------------- MODULE Spec2Model ----------------------------
(***************************************************************************)
(* Incident lifecycle of the Loganalytics backend: the CloudWatch monitors *)
(* (monitor.py), the e-mail approval gate (email_agent.py), the analyzer   *)
(* and its error-log tailing loop (agent.py) and the fixer with its        *)
(* remediators (fixer.py).  Files are modelled by their contents, threads  *)
(* by interleaved actions, external collaborators (CloudWatch, Gmail, the  *)
(* LLM, PowerShell, kubectl) by inputs drawn from small sets.              *)
(***************************************************************************)
EXTENDS Integers, Sequences, FiniteSets, TLC

(* ------------------------------ bounds -------------------------------- *)
\* incidents (uuid4 references) created in one run
MaxRefs == 2
\* events returned by one filter_log_events call
MaxBatch == 2
\* clock: seconds per tick and last instant of the run
TimeStep == 30
MaxTime == 60
\* replies the human sends, and deliveries of one reply to process_reply
MaxReplies == 1
MaxDeliveries == 2
\* words in a reply body
MaxWords == 2
\* data sources with an active rule
MaxActive == 1
\* starts of the server process
MaxBoots == 2
\* calls of start_agents in one process
MaxStarts == 2
\* websockets that ever connect
MaxClients == 3

(* ------------------------- program constants -------------------------- *)
cooldown_period == 60
max_retries == 3
email_max_retries == 3
MAX_CLIENTS == 100

Sources == {"windows", "snowflake", "kubernetes", "databricks"}
Modes == {"semi-autonomous", "autonomous"}
Refs == 1..MaxRefs

(* ------------------------------ state --------------------------------- *)
VARIABLES
    agents,            \* main.py: the agents registry and the threads started
    earlier,           \* the agents of earlier start_agents calls, still running
    regen,             \* a plan regeneration of the Windows remediator
    websocket_clients, \* ConnectionManager.websocket_clients
    accepting,         \* websockets whose connect call awaits accept()
    crowd,             \* further members of websocket_clients, as a number
    cast,              \* the last ConnectionManager.broadcast with clients
    mode,              \* MonitorAgent.mode, set by start_agents
    active_data_sources, \* data sources of the active rules (rules_engine)
    conn,              \* snowflake_conn of the analyzer and of the fixer
    now,               \* wall clock (time.time()), seconds
    poll,              \* the search_errors call in progress
    seen_event_ids,    \* ServiceMonitor.seen_event_ids, per monitor
    cooldown_tracker,  \* KubernetesMonitor.cooldown_tracker
    nextRef,           \* uuid.uuid4(): the next fresh reference
    pending_requests,  \* EmailAgent.pending_requests
    email_requests_file, \* email_requests.json: the members of its object
    error_log,         \* <source>_errors.log, entries in file order
    last_position,     \* ErrorAnalyzerAgent.last_position_<source>
    fix_queue,         \* fix_queue.json: <<>> or one record
    inbox,             \* unread replies in the Gmail inbox
    nextReply,         \* Gmail id of the next reply
    fx,                \* FixerAgent.run_async and the running remediator
    broadcasts,        \* per reference, the statuses broadcast, in order
    incidents,         \* per reference, the accepted signal (history)
    sentMail,          \* approval requests actually sent (history)
    analysisCount,     \* per reference, calls of analyze_error (history)
    handoffCount,      \* per reference, writes of fix_queue.json (history)
    approvedRefs,      \* references whose reply was classified approved
    declinedRefs,      \* references whose reply was classified declined
    deliveries,        \* per reply id, calls of process_reply (history)
    matches,           \* per reply id, deliveries that matched an entry
    lastGate           \* outcome of the last event a monitor looked at

\* what the agents' own loops never touch
sysVars == <<agents, earlier, regen, websocket_clients, accepting, crowd, cast>>

vars == <<sysVars, email_requests_file, mode, active_data_sources, conn, now, poll, seen_event_ids, cooldown_tracker, nextRef,
          pending_requests, error_log, last_position, fix_queue, inbox,
          nextReply, fx, broadcasts, incidents, sentMail, analysisCount,
          handoffCount, approvedRefs, declinedRefs, deliveries, matches,
          lastGate>>

(* --------------------------- small helpers ---------------------------- *)
Put(f, k, v) == (k :> v) @@ f
Drop(f, k) == [x \in (DOMAIN f) \ {k} |-> f[x]]
Bump(f, k) == IF k \in DOMAIN f THEN [f EXCEPT ![k] = @ + 1] ELSE Put(f, k, 1)
Count(f, k) == IF k \in DOMAIN f THEN f[k] ELSE 0
Emit(b, ref, statuses) ==
    Put(b, ref, (IF ref \in DOMAIN b THEN b[ref] ELSE <<>>) \o statuses)

(* ------------------------- CloudWatch events -------------------------- *)
\* An event as filter_log_events returns it.  id: eventId.  ok: the message
\* passes the monitor's content filter.  key: the resource the message names.
\* Kubernetes only: json (the message parses as JSON), objKey (objectRef
\* namespace/name), status (a containerStatuses entry says OOMKilled),
\* rxKey (namespace/pod the OutOfMemory regex finds, "none" if no match).
Ev(id, src, ok, key, json, objKey, status, rxKey) ==
    [id |-> id, src |-> src, ok |-> ok, key |-> key, json |-> json,
     objKey |-> objKey, status |-> status, rxKey |-> rxKey]
PlainEv(id, src, ok, key) == Ev(id, src, ok, key, TRUE, key, FALSE, "none")

Events == {
    PlainEv("w1", "windows", TRUE, "Spooler"),
    PlainEv("w2", "windows", TRUE, "Spooler"),
    PlainEv("w3", "windows", FALSE, "Spooler"),
    PlainEv("s1", "snowflake", TRUE, "query"),
    PlainEv("s2", "snowflake", TRUE, "query"),
    PlainEv("d1", "databricks", TRUE, "main.t"),
    Ev("k1", "kubernetes", TRUE, "ns/a", TRUE, "ns/a", TRUE, "none"),
    Ev("k2", "kubernetes", TRUE, "ns/a", TRUE, "ns/a", TRUE, "none"),
    Ev("k3", "kubernetes", TRUE, "ns/a", TRUE, "demo-app/stress-demo", FALSE, "ns/a"),
    Ev("k4", "kubernetes", TRUE, "ns/a", FALSE, "none", FALSE, "ns/a"),
    Ev("k5", "kubernetes", TRUE, "none", FALSE, "none", FALSE, "none") }

EventsOf(src) == {e \in Events : e.src = src}
Batches(src) ==
    UNION {[1..n -> EventsOf(src)] : n \in 1..MaxBatch}


(* --------------------------- remediation steps ------------------------ *)
\* A command string, by its leading words (what startswith / the GRANT regex
\* look at), its target and the text that follows (v).
Step(cmd, svc, v) == [cmd |-> cmd, svc |-> svc, v |-> v]

\* agent.py 312-315, 324-327: the two Windows commands for a service
WinPlan(svc, v) ==
    <<Step("cmd /c sc config", svc, v), Step("Start-Service", svc, v)>>
\* agent.py 645-647
K8sPlan(pod) ==
    <<Step("kubectl delete pod", pod, "n"), Step("kubectl apply -f", pod, "manifest")>>
\* agent.py 874-878: the Databricks API body
DbxPlan(tbl, v) == <<Step("changes", tbl, v)>>

(* ------------------------------ analysis ------------------------------ *)
\* What the collaborators answer during one analyze_error call.
AnalysisInputs(src) ==
    CASE src = "windows" ->
           {"no_service", "valid", "invalid_steps", "bad_json", "api_error"}
      [] src = "snowflake" ->
           {"jwt", "valid", "unsafe", "bad_json", "api_error"}
      [] src = "kubernetes" -> {"ok", "no_manifest"}
      [] OTHER -> {"valid", "valid_two", "invalid_steps", "bad_json", "api_error"}

\* remediation_steps of the model's reply, where the reply parses to any
LlmPlan(src, em, o) ==
    CASE src = "windows" /\ o = "valid" -> WinPlan(em.key, "llm")
      [] src = "windows" /\ o = "invalid_steps" ->
           <<Step("Restart-Service", em.key, "llm")>>
      [] src = "snowflake" /\ o = "valid" -> <<Step("GRANT", em.key, "llm")>>
      [] src = "snowflake" /\ o = "unsafe" -> <<Step("DROP", em.key, "llm")>>
      [] src = "databricks" /\ o = "valid" -> DbxPlan(em.key, "llm")
      [] src = "databricks" /\ o = "valid_two" ->
           DbxPlan(em.key, "llm") \o DbxPlan(em.key, "llm2")
      [] src = "databricks" /\ o = "invalid_steps" ->
           <<Step("not json", em.key, "llm")>>
      [] OTHER -> <<>>

Result(final, steps) == [final |-> final, steps |-> steps]

\* a plan the analyzer never keeps
WindowsPlanNeverValid(plan, svc) == FALSE
\* agent.py 317-321: two steps, each with the expected beginning
WindowsPlanValid(plan, svc) ==
    /\ Len(plan) = 2
    /\ plan[1].cmd = "cmd /c sc config" /\ plan[1].svc = svc
    /\ plan[2].cmd = "Start-Service" /\ plan[2].svc = svc
\* agent.py 872, 882-892: only the first step is looked at
DatabricksPlanValid(plan) == plan # <<>> /\ plan[1].cmd = "changes"

\* WindowsErrorAnalyzer.analyze_and_broadcast
WindowsAnalyze(em, o) ==
    IF o = "no_service" THEN Result("analysis failed", <<>>)
    ELSE IF o = "api_error"
         THEN Result("analysis failed", WinPlan(em.key, "fallback"))
    ELSE LET plan == IF o = "bad_json" THEN WinPlan(em.key, "fallback")
                     ELSE LlmPlan("windows", em, o)
         IN Result("analysis complete",
                   IF WindowsPlanValid(plan, em.key) THEN plan
                   ELSE WinPlan(em.key, "fallback"))

\* SnowflakeErrorAnalyzer.analyze_and_broadcast
SnowflakeAnalyze(em, o) ==
    IF o = "jwt" THEN Result("analysis complete", <<>>)
    ELSE IF o \in {"valid", "unsafe"}
         THEN Result("analysis complete", LlmPlan("snowflake", em, o))
    ELSE IF o = "bad_json"
         THEN Result("analysis failed", <<Step("reply_content", em.key, "llm")>>)
    ELSE Result("analysis failed", <<Step("Error:", em.key, "e")>>)

\* KubernetesErrorAnalyzer.analyze_and_broadcast
KubernetesAnalyze(em, o) ==
    IF em.key = "none" \/ o = "no_manifest" THEN Result("analysis failed", <<>>)
    ELSE Result("analysis complete", K8sPlan(em.key))

\* DatabricksErrorAnalyzer.analyze_and_broadcast
DatabricksAnalyze(em, o) ==
    IF o \in {"bad_json", "api_error"}
    THEN Result("analysis failed", DbxPlan(em.key, "fallback"))
    ELSE LET plan == LlmPlan("databricks", em, o)
         IN Result("analysis complete",
                   IF DatabricksPlanValid(plan) THEN plan
                   ELSE DbxPlan(em.key, "fallback"))

\* ErrorAnalyzerAgent.analyzers: snowflake only with a connection
HasAnalyzer(src, c) == src \in Sources /\ (src = "snowflake" => c.analyzer)

\* ErrorAnalyzerAgent.analyze_error: the result, the analyzer's own
\* broadcasts (initial_broadcast, then the analyzer's final status) and,
\* for reference, the plan the model had proposed
AnalyzeError(em, src, o, c) ==
    IF ~HasAnalyzer(src, c)
    THEN [final |-> "analysis failed", steps |-> <<>>,
          said |-> <<"analysis failed">>, llm |-> <<>>]
    ELSE LET r == CASE src = "windows" -> WindowsAnalyze(em, o)
                    [] src = "snowflake" -> SnowflakeAnalyze(em, o)
                    [] src = "kubernetes" -> KubernetesAnalyze(em, o)
                    [] OTHER -> DatabricksAnalyze(em, o)
         IN [final |-> r.final, steps |-> r.steps,
             said |-> <<"error detected", r.final>>,
             llm |-> IF r.final = "analysis complete" THEN LlmPlan(src, em, o)
                     ELSE <<>>]

\* the record the callers of analyze_error dump into fix_queue.json; llm is
\* not in the file: it remembers what the model had proposed
Handoff(ref, em, src, a) ==
    [reference |-> ref, error |-> em, steps |-> a.steps, source |-> src,
     llm |-> a.llm]

(* ------------------------- approval request --------------------------- *)
\* Gmail's answers to the attempts of one send_email call: each attempt
\* sends (send_fail: send raises) and then fetches the Message-ID of what it
\* sent (get_fail: the fetch raises after the mail has gone out).
MailAnswers == {"ok", "send_fail", "get_fail"}
MailOutcomes ==
    {q \in UNION {[1..n -> MailAnswers] : n \in 1..email_max_retries} :
        /\ \A i \in 1..(Len(q) - 1) : q[i] # "ok"
        /\ (Len(q) < email_max_retries => q[Len(q)] = "ok")}

\* save_pending_requests 101-108: json.dump of the whole map; the file is
\* the set of the object's members. A write that raises is only logged
\* (107-108): the callers pass saved = FALSE and the file keeps its content
SavePending(pending) == {<<ref, pending[ref]>> : ref \in DOMAIN pending}
\* load_pending_requests 79-99: json.load of the file
LoadPending(file) ==
    [ref \in {member[1] : member \in file} |->
        (CHOOSE member \in file : member[1] = ref)[2]]

NoMessage == <<0, 0>>
MessageId(ref, attempt) == <<ref, attempt>>

\* EmailAgent.send_email: attempts made, mails that went out, the id stored
SendEmail(ref, q) ==
    [sent |-> {[id |-> MessageId(ref, i), ref |-> ref] :
                   i \in {j \in 1..Len(q) : q[j] # "send_fail"}},
     stored |-> IF q[Len(q)] = "ok" THEN MessageId(ref, Len(q)) ELSE NoMessage,
     success |-> q[Len(q)] = "ok"]

(* ------------------------------ the gate ------------------------------ *)
\* a monitor that takes every delivery as a first delivery
NeverDuplicate(seen, id) == FALSE
\* monitor.py 87, 172, 237, 382
IsDuplicate(seen, id) == id \in seen
\* a monitor that does not remember the ids it has handled
SeenAddForgets(seen, id) == seen
\* monitor.py 90, 174, 240, 385
SeenAdd(seen, id) == seen \cup {id}

\* a monitor that never finds a pod inside its window
NeverInCooldown(tracker, key, current_time) == FALSE
\* monitor.py 255-259, 320-324
InCooldown(tracker, key, current_time) ==
    /\ key \in DOMAIN tracker
    /\ current_time - tracker[key].timestamp < cooldown_period

Decision(d, key) == [decision |-> d, key |-> key]

\* KubernetesMonitor.search_errors up to the point where a reference is drawn
KubernetesGate(ev, tracker, current_time) ==
    IF ~ev.ok THEN Decision("filtered", "none")
    ELSE IF ev.json
    THEN IF InCooldown(tracker, ev.objKey, current_time)
         THEN Decision("cooled_down", ev.objKey)
         ELSE IF ev.status THEN Decision("accepted", ev.objKey)
         ELSE IF ev.rxKey # "none" THEN Decision("accepted", ev.rxKey)
         ELSE Decision("filtered", "none")
    ELSE IF ev.rxKey = "none" THEN Decision("filtered", "none")
         ELSE IF InCooldown(tracker, ev.rxKey, current_time)
              THEN Decision("cooled_down", ev.rxKey)
              ELSE Decision("accepted", ev.rxKey)

\* Windows, Snowflake and Databricks monitors: the content filter only
PlainGate(ev) ==
    IF ev.ok THEN Decision("accepted", ev.key) ELSE Decision("filtered", "none")

Gate(ev, tracker, current_time) ==
    IF ev.src = "kubernetes" THEN KubernetesGate(ev, tracker, current_time)
    ELSE PlainGate(ev)

\* monitor.py 282, 326: only the Kubernetes monitor keeps a cooldown entry
Track(tracker, src, key, t, ref) ==
    IF src = "kubernetes"
    THEN Put(tracker, key, [timestamp |-> t, reference |-> ref])
    ELSE tracker

\* the error message handed on: the reference line and what the text names
ErrorMessage(ref, src, key) == [ref |-> ref, src |-> src, key |-> key]

Idle == [src |-> "idle", current_time |-> 0, events |-> <<>>]
NoGate == [src |-> "idle", id |-> "none", decision |-> "none", key |-> "none",
           ref |-> 0]

FxIdle == [pc |-> "idle", data |-> <<>>, attempt |-> 0, steps |-> <<>>,
           i |-> 0, step_success |-> TRUE, success |-> FALSE, log |-> <<>>,
           plans |-> <<>>, said |-> <<>>, shown |-> <<>>]

\* MonitorAgent.get_active_data_sources: what the rules collection yields
ActiveChoices ==
    {S \in SUBSET Sources : Cardinality(S) >= 1 /\ Cardinality(S) <= MaxActive}

(* ------------------------------- Init --------------------------------- *)
\* main.py 121-171: the registry holds the agents of one start_agents call
\* and their threads run; boots counts the starts of the process
Started == [registered |-> TRUE, starts |-> 1, boots |-> 1]
\* no websocket has connected: every broadcast of the agents returns at
\* main.py 58-60
NoCast == [clients |-> {}, does |-> <<>>, got |-> {}, raised |-> FALSE]
NoRegen == [step |-> <<>>, current_steps |-> <<>>, g |-> "none", n |-> "none",
            plan |-> <<>>]
\* main.py 94, 121-171: the manager and the registry as the module builds
\* them, but for the members of the client set that are only counted
SysStart ==
    /\ agents = Started
    /\ earlier = <<>>
    /\ regen = NoRegen
    /\ websocket_clients = {}
    /\ accepting = {}
    /\ cast = NoCast
SysInit == SysStart /\ crowd = 0

\* start_agents has built the agents; nothing has been polled yet
AgentsInit ==
    /\ mode \in Modes
    /\ active_data_sources \in ActiveChoices
    /\ \E c \in BOOLEAN : conn = [analyzer |-> c, fixer |-> c]
    /\ now = 0
    /\ poll = Idle
    /\ seen_event_ids = [s \in Sources |-> {}]
    /\ cooldown_tracker = <<>>
    /\ nextRef \in 1..MaxRefs
    /\ pending_requests = <<>>
    /\ email_requests_file = SavePending(pending_requests)
    /\ error_log = [s \in Sources |-> <<>>]
    /\ last_position = [s \in Sources |-> 0]
    /\ fix_queue = <<>>
    /\ inbox = {}
    /\ nextReply = 1
    /\ fx = FxIdle
    /\ broadcasts = <<>>
    /\ incidents = <<>>
    /\ sentMail = {}
    /\ analysisCount = <<>>
    /\ handoffCount = <<>>
    /\ approvedRefs = {}
    /\ declinedRefs = {}
    /\ deliveries = <<>>
    /\ matches = <<>>
    /\ lastGate = NoGate
Init == SysInit /\ AgentsInit

(* ------------------------------ monitors ------------------------------ *)

\* time passes
Tick ==
    /\ now + TimeStep <= MaxTime
    /\ now' = now + TimeStep
    /\ UNCHANGED <<sysVars, email_requests_file, mode, active_data_sources, conn, poll, seen_event_ids, cooldown_tracker, nextRef,
                   pending_requests, error_log, last_position, fix_queue, inbox,
                   nextReply, fx, broadcasts, incidents, sentMail, analysisCount,
                   handoffCount, approvedRefs, declinedRefs, deliveries, matches,
                   lastGate>>

\* MonitorAgent.run_async calls monitor.search_errors(group); the call reads
\* the clock and fetches the events (monitor.py 75-85, 158-170, 223-235)
PollStart(src) ==
    /\ poll = Idle
    /\ src \in active_data_sources
    /\ src = "snowflake" => conn.analyzer
    /\ \E b \in Batches(src) :
          /\ nextRef + Len(b) - 1 <= MaxRefs   \* references left for the batch
          /\ poll' = [src |-> src, current_time |-> now, events |-> b]
    /\ UNCHANGED <<sysVars, email_requests_file, mode, active_data_sources, conn, now, seen_event_ids, cooldown_tracker, nextRef,
                   pending_requests, error_log, last_position, fix_queue, inbox,
                   nextReply, fx, broadcasts, incidents, sentMail, analysisCount,
                   handoffCount, approvedRefs, declinedRefs, deliveries, matches,
                   lastGate>>

\* search_errors returns when the events are used up
PollEnd ==
    /\ poll.src # "idle"
    /\ poll.events = <<>>
    /\ poll' = Idle
    /\ UNCHANGED <<sysVars, email_requests_file, mode, active_data_sources, conn, now, seen_event_ids, cooldown_tracker, nextRef,
                   pending_requests, error_log, last_position, fix_queue, inbox,
                   nextReply, fx, broadcasts, incidents, sentMail, analysisCount,
                   handoffCount, approvedRefs, declinedRefs, deliveries, matches,
                   lastGate>>

Looking == poll.src # "idle" /\ poll.events # <<>>
Current == Head(poll.events)
Verdict == Gate(Current, cooldown_tracker, poll.current_time)
Fresh == ~IsDuplicate(seen_event_ids[poll.src], Current.id)
MarkSeen ==
    [seen_event_ids EXCEPT ![poll.src] = SeenAdd(@, Current.id)]

\* one pass of the for loop that ends in continue: a duplicate id, an event
\* the content filter drops, or a pod inside its cooldown window
SkipEvent ==
    /\ Looking
    /\ ~Fresh \/ Verdict.decision # "accepted"
    /\ seen_event_ids' = IF Fresh THEN MarkSeen ELSE seen_event_ids
    /\ lastGate' = [src |-> poll.src, id |-> Current.id,
                    decision |-> IF Fresh THEN Verdict.decision ELSE "duplicate",
                    key |-> IF Fresh THEN Verdict.key ELSE "none", ref |-> 0]
    /\ poll' = [poll EXCEPT !.events = Tail(@)]
    /\ UNCHANGED <<sysVars, email_requests_file, mode, active_data_sources, conn, now, cooldown_tracker, nextRef,
                   pending_requests, error_log, last_position, fix_queue, inbox,
                   nextReply, fx, broadcasts, incidents, sentMail, analysisCount,
                   handoffCount, approvedRefs, declinedRefs, deliveries, matches>>

\* what every accepting pass does first: draw the reference, record the
\* cooldown entry (Kubernetes), broadcast "error detected"
Accepted(ref) ==
    /\ Looking /\ Fresh /\ Verdict.decision = "accepted"
    /\ nextRef <= MaxRefs
    /\ ref = nextRef
    /\ nextRef' = nextRef + 1
    /\ seen_event_ids' = MarkSeen
    /\ incidents' = Put(incidents, ref,
                        [src |-> poll.src, key |-> Verdict.key,
                         id |-> Current.id, at |-> poll.current_time])
    /\ lastGate' = [src |-> poll.src, id |-> Current.id, decision |-> "accepted",
                    key |-> Verdict.key, ref |-> ref]

\* monitor.py 118-120, 186-188, 292-294, 335-337, 413-415 with
\* EmailAgent.handle_error and send_email
AcceptSupervised ==
    \E ref \in Refs, q \in MailOutcomes, saved \in BOOLEAN :
      LET src == poll.src
          em == ErrorMessage(ref, src, Verdict.key)
          m == SendEmail(ref, q)
      IN
      /\ mode = "semi-autonomous"
      /\ Accepted(ref)
      /\ cooldown_tracker' =
            Track(cooldown_tracker, src, Verdict.key, poll.current_time, ref)
      /\ error_log' = IF src = "kubernetes"
                      THEN [error_log EXCEPT ![src] = Append(@, em)]
                      ELSE error_log
      /\ sentMail' = sentMail \cup m.sent
      /\ pending_requests' =
            IF m.success
            THEN Put(pending_requests, ref,
                     [error_message |-> em, source |-> src, message_id |-> m.stored])
            ELSE pending_requests
      /\ email_requests_file' =
            IF m.success /\ saved THEN SavePending(pending_requests')
            ELSE email_requests_file
      /\ broadcasts' = Emit(broadcasts, ref,
            <<"error detected">> \o
            (IF m.success THEN <<"email sent">> ELSE <<>>))
      /\ poll' = [poll EXCEPT !.events = Tail(@)]
      /\ UNCHANGED <<sysVars, mode, active_data_sources, conn, now, last_position, fix_queue, inbox, nextReply,
                     fx, analysisCount, handoffCount, approvedRefs, declinedRefs,
                     deliveries, matches>>

\* monitor.py 121-139, 295-312, 338-355, 416-434: log the error, analyze it
\* inline, broadcast "analysis complete", write fix_queue.json
AcceptAutonomous ==
    \E ref \in Refs, o \in AnalysisInputs(poll.src) :
      LET src == poll.src
          em == ErrorMessage(ref, src, Verdict.key)
          a == AnalyzeError(em, src, o, conn)
      IN
      /\ mode = "autonomous"
      /\ src # "snowflake"
      /\ Accepted(ref)
      /\ cooldown_tracker' =
            Track(cooldown_tracker, src, Verdict.key, now, ref)
      /\ error_log' = [error_log EXCEPT ![src] = Append(@, em)]
      /\ analysisCount' = Bump(analysisCount, ref)
      /\ broadcasts' = Emit(broadcasts, ref,
            <<"error detected">> \o a.said \o <<"analysis complete">>)
      /\ fix_queue' = <<Handoff(ref, em, src, a)>>
      /\ handoffCount' = Bump(handoffCount, ref)
      /\ poll' = [poll EXCEPT !.events = Tail(@)]
      /\ UNCHANGED <<sysVars, email_requests_file, mode, active_data_sources, conn, now, pending_requests, last_position, inbox,
                     nextReply, fx, sentMail, approvedRefs, declinedRefs,
                     deliveries, matches>>

\* monitor.py 189-211: the Snowflake monitor logs the error, calls
\* analyze_error without awaiting it, and .get on the coroutine raises; the
\* handler around the whole loop ends the call
AcceptAutonomousSnowflake ==
    \E ref \in Refs :
      LET em == ErrorMessage(ref, "snowflake", Verdict.key) IN
      /\ mode = "autonomous"
      /\ poll.src = "snowflake"
      /\ Accepted(ref)
      /\ error_log' = [error_log EXCEPT !["snowflake"] = Append(@, em)]
      /\ broadcasts' = Emit(broadcasts, ref, <<"error detected">>)
      /\ poll' = [poll EXCEPT !.events = <<>>]
      /\ UNCHANGED <<sysVars, email_requests_file, mode, active_data_sources, conn, now, cooldown_tracker, pending_requests,
                     last_position, fix_queue, inbox, nextReply, fx, sentMail,
                     analysisCount, handoffCount, approvedRefs, declinedRefs,
                     deliveries, matches>>

Poll == \E src \in Sources : PollStart(src)
Monitor ==
    \/ Poll
    \/ SkipEvent
    \/ AcceptSupervised
    \/ AcceptAutonomous
    \/ AcceptAutonomousSnowflake
    \/ PollEnd
\* the passes a monitor can make in each mode
MonitorSupervised == Poll \/ SkipEvent \/ AcceptSupervised \/ PollEnd
MonitorAutonomous ==
    Poll \/ SkipEvent \/ AcceptAutonomous \/ AcceptAutonomousSnowflake \/ PollEnd


(* ------------------------- the intent classifier ---------------------- *)
\* A reply body is a sequence of characters.
LowerChar(c) ==
    CASE c = "A" -> "a" [] c = "D" -> "d" [] c = "N" -> "n" [] c = "O" -> "o"
      [] OTHER -> c
\* str.lower()
Lower(body) == [i \in 1..Len(body) |-> LowerChar(body[i])]
\* word in body
Contains(body, word) ==
    \E i \in 1..(Len(body) - Len(word) + 1) :
        SubSeq(body, i, i + Len(word) - 1) = word

\* email_agent.py 298 and 300
approve_words == {
    <<"a", "p", "p", "r", "o", "v", "e">>, <<"y", "e", "s">>, <<"p", "r", "o", "c", "e", "e", "d">>, <<"g", "o", " ", "a", "h", "e", "a", "d">>, <<"o", "k">> }
decline_words == {
    <<"d", "e", "c", "l", "i", "n", "e">>, <<"n", "o">>, <<"r", "e", "j", "e", "c", "t">>, <<"s", "t", "o", "p">> }

\* email_agent.py 296-301
Intent(body) ==
    IF \E word \in approve_words : Contains(Lower(body), word)
    THEN "Request_approved"
    ELSE IF \E word \in decline_words : Contains(Lower(body), word)
         THEN "Request_declined"
         ELSE "Request_declined"

\* what a human may type: single words and short phrases, one of them the
\* quoted line of the approval request ("... reply with 'Approve' ...")
Vocabulary == {
    <<"a", "p", "p", "r", "o", "v", "e">>, <<"y", "e", "s">>, <<"o", "k">>, <<"p", "r", "o", "c", "e", "e", "d">>, <<"d", "e", "c", "l", "i", "n", "e">>, <<"n", "o">>, <<"r", "e", "j", "e", "c", "t">>, <<"s", "t", "o", "p">>,
    <<"h", "o", "l", "d">>, <<"b", "o", "o", "k">>, <<"n", "o", "t">>, <<"N", "O">>, <<"D", "e", "c", "l", "i", "n", "e">>, <<">", " ", "'", "A", "p", "p", "r", "o", "v", "e", "'">> }
Space == <<" ">>
RECURSIVE Join(_)
Join(ws) == IF Len(ws) = 0 THEN <<>>
            ELSE IF Len(ws) = 1 THEN ws[1]
            ELSE ws[1] \o Space \o Join(Tail(ws))
Bodies ==
    {Join(ws) : ws \in UNION {[1..n -> Vocabulary] : n \in 0..MaxWords}}
\* the bodies used where the wording is not the point
ShortBodies == {<<"y", "e", "s">>, <<"n", "o">>}

(* --------------------------- the email agent -------------------------- *)
Reply(id, in_reply_to, body) ==
    [id |-> id, in_reply_to |-> in_reply_to, body |-> body]

\* the human answers one of the approval requests received (or writes a
\* mail that is not a reply); Gmail puts it in the inbox as unread
ReplyArrive ==
    /\ mode = "semi-autonomous"
    /\ nextReply <= MaxReplies
    /\ \E t \in {m.id : m \in sentMail} \cup {NoMessage}, b \in ShortBodies :
          inbox' = inbox \cup {Reply(nextReply, t, b)}
    /\ nextReply' = nextReply + 1
    /\ UNCHANGED <<sysVars, email_requests_file, mode, active_data_sources, conn, now, poll, seen_event_ids,
                   cooldown_tracker, nextRef, pending_requests, error_log,
                   last_position, fix_queue, fx, broadcasts, incidents, sentMail,
                   analysisCount, handoffCount, approvedRefs, declinedRefs,
                   deliveries, matches, lastGate>>

\* a lookup that serves the pending requests in the order of their
\* creation
MatchingOldest(pending, msg) ==
    {ref \in DOMAIN pending : \A other \in DOMAIN pending : ref <= other}
\* a lookup that takes any pending request for the reply's
MatchingAny(pending, msg) == DOMAIN pending
\* a lookup that gives a reply without a threading header to every pending
\* request
MatchingOrFallback(pending, msg) ==
    IF msg.in_reply_to = NoMessage THEN DOMAIN pending
    ELSE {ref \in DOMAIN pending : pending[ref].message_id = msg.in_reply_to}
\* process_reply 248-267: the pending requests whose stored id equals the
\* reply's In-Reply-To
Matching(pending, msg) ==
    IF msg.in_reply_to = NoMessage THEN {}
    ELSE {ref \in DOMAIN pending : pending[ref].message_id = msg.in_reply_to}

ReplyFaults == {"none", "fetch", "body", "write"}

\* check_inbox 204-212 for one unread message: process_reply (with
\* analyze_reply), then the message is marked read. fault names the call
\* that raises: the message fetch, the body extraction, or the write of
\* fix_queue.json; marked is whether messages().modify succeeds, saved
\* whether the write of email_requests.json does.
EmailProcess ==
    \E msg \in inbox, fault \in ReplyFaults, marked \in BOOLEAN,
       saved \in BOOLEAN :
      LET found == IF fault = "fetch" THEN {}
                   ELSE Matching(pending_requests, msg)
          ref == CHOOSE r \in found : TRUE
          request == pending_requests[ref]
          intent == Intent(msg.body)
          analyzed == found # {} /\ fault # "body"
          approved == analyzed /\ intent = "Request_approved"
          removed == analyzed /\ (approved => fault # "write")
      IN
      /\ mode = "semi-autonomous"
      /\ Count(deliveries, msg.id) < MaxDeliveries
      /\ deliveries' = Bump(deliveries, msg.id)
      /\ inbox' = IF marked THEN inbox \ {msg} ELSE inbox
      /\ matches' = IF found = {} THEN matches
                    ELSE Emit(matches, msg.id,
                              <<[ref |-> ref, body |-> msg.body,
                                 intent |-> IF analyzed THEN intent ELSE "none"]>>)
      /\ approvedRefs' = IF approved THEN approvedRefs \cup {ref} ELSE approvedRefs
      /\ declinedRefs' = IF analyzed /\ ~approved
                         THEN declinedRefs \cup {ref} ELSE declinedRefs
      /\ pending_requests' = IF removed THEN Drop(pending_requests, ref)
                             ELSE pending_requests
      /\ email_requests_file' =
            IF removed /\ saved THEN SavePending(pending_requests')
            ELSE email_requests_file
      /\ error_log' = IF approved /\ request.source = "windows"
                      THEN [error_log EXCEPT !["windows"] =
                                Append(@, request.error_message)]
                      ELSE error_log
      /\ IF approved
         THEN \E o \in AnalysisInputs(request.source) :
                LET a == AnalyzeError(request.error_message, request.source, o, conn)
                IN
                /\ analysisCount' = Bump(analysisCount, ref)
                /\ broadcasts' = Emit(broadcasts, ref,
                      <<"email received", "intent analyzed">> \o a.said
                      \o <<"analysis complete">>)
                /\ IF fault = "write"
                   THEN UNCHANGED <<fix_queue, handoffCount>>
                   ELSE /\ fix_queue' = <<Handoff(ref, request.error_message,
                                                  request.source, a)>>
                        /\ handoffCount' = Bump(handoffCount, ref)
         ELSE /\ broadcasts' =
                    IF found = {} THEN broadcasts
                    ELSE Emit(broadcasts, ref,
                              <<"email received">> \o
                              (IF analyzed THEN <<"intent analyzed">> ELSE <<>>))
              /\ UNCHANGED <<analysisCount, fix_queue, handoffCount>>
      /\ UNCHANGED <<sysVars, mode, active_data_sources, conn, now, poll, seen_event_ids,
                     cooldown_tracker, nextRef, last_position, nextReply, fx,
                     incidents, sentMail, lastGate>>

(* ------------------------ the error-log tail -------------------------- *)
\* ErrorAnalyzerAgent.run, one new entry of one log: analyze it and write
\* fix_queue.json (agent.py 1111-1202)
AnalyzerTail(src) ==
    /\ last_position[src] < Len(error_log[src])
    /\ src = "snowflake" => conn.analyzer
    /\ \E o \in AnalysisInputs(src) :
         LET em == error_log[src][last_position[src] + 1]
             \* analyze_error 1062-1063: the entry's reference, else a new one
             ref == IF em.ref # 0 THEN em.ref ELSE nextRef
             a == AnalyzeError(em, src, o, conn)
         IN
         /\ em.ref = 0 => nextRef <= MaxRefs
         /\ nextRef' = IF em.ref = 0 THEN nextRef + 1 ELSE nextRef
         /\ last_position' = [last_position EXCEPT ![src] = @ + 1]
         /\ analysisCount' = Bump(analysisCount, ref)
         /\ broadcasts' = Emit(broadcasts, ref, a.said)
         /\ fix_queue' = <<Handoff(ref, em, src, a)>>
         /\ handoffCount' = Bump(handoffCount, ref)
    /\ UNCHANGED <<sysVars, email_requests_file, mode, active_data_sources, conn, now, poll, seen_event_ids,
                   cooldown_tracker, pending_requests, error_log, inbox,
                   nextReply, fx, incidents, sentMail, approvedRefs,
                   declinedRefs, deliveries, matches, lastGate>>

Mail == ReplyArrive \/ EmailProcess
Tail_ == \E src \in Sources : AnalyzerTail(src)

(* ------------------------------ the fixer ----------------------------- *)
\* FixerAgent.remediators: snowflake only with a connection (fixer.py 322-328)
HasRemediator(src, c) == src \in Sources /\ (src = "snowflake" => c.fixer)

\* the test each remediator applies to a step before running it
\* (fixer.py 40-45, 177, 210)
ValidStep(src, step) ==
    CASE src = "windows" ->
           step.cmd \in {"cmd /c sc config", "sc config", "Start-Service", "Get-Service"}
      [] src = "snowflake" -> step.cmd = "GRANT"
      [] src = "kubernetes" ->
           step.cmd \in {"kubectl apply -f", "kubectl delete pod"}
      [] OTHER -> step.cmd = "changes"

\* a loop that goes round once more than max_retries
KeepTryingOnceMore(attempt) == attempt <= max_retries + 1
\* fixer.py 37: while attempt <= max_retries
KeepTrying(attempt) == attempt <= max_retries

\* fixer.py 68-78: Get-Service looks the name up, by Name and then by
\* DisplayName, and gives the service's Name; a name it does not find stays
NormInputs == {"by_name", "by_display", "unknown"}
Canonical(name) == IF name = "spooler" THEN "Spooler" ELSE name
Normalize(name, n) == IF n = "unknown" THEN name ELSE Canonical(name)
\* fixer.py 57-66 and "service_name or 'Spooler'": only a failed sc config
\* or Start-Service step names the service
FailedService(step, n) ==
    IF step.cmd \in {"cmd /c sc config", "sc config", "Start-Service"}
    THEN Normalize(step.svc, n)
    ELSE "Spooler"

\* the answers of the model asked for new steps (fixer.py 91-135): the call
\* raises, the reply is not JSON, the JSON is not an object, the object has
\* no remediation_steps, or it has them in one of these shapes
RegenInputs == {"api_error", "bad_json", "not_object", "no_key", "non_string",
                "valid", "other_service", "one_step", "three_steps",
                "swapped", "bare_sc"}
\* answers on which lines 100-109 raise: the handlers at 121-135 take over
RegenRaises(g) == g \in {"api_error", "bad_json", "not_object", "non_string"}
\* fixer.py 108: new_result.get("remediation_steps", current_steps)
Proposed(g, S, current_steps) ==
    CASE g = "valid" -> WinPlan(S, "regen")
      [] g = "other_service" -> WinPlan("W32Time", "regen")
      [] g = "one_step" -> <<Step("cmd /c sc config", S, "regen")>>
      [] g = "three_steps" ->
            WinPlan(S, "regen") \o <<Step("Get-Service", S, "regen")>>
      [] g = "swapped" ->
            <<Step("Start-Service", S, "regen"),
              Step("cmd /c sc config", S, "regen")>>
      [] g = "bare_sc" ->
            <<Step("sc config", S, "regen"), Step("Start-Service", S, "regen")>>
      [] OTHER -> current_steps

\* a test that lets every revision through
RevisionAlwaysValid(steps, S) == TRUE
\* fixer.py 109-113
RevisionValid(steps, S) ==
    /\ Len(steps) = 2
    /\ steps[1].cmd = "cmd /c sc config" /\ steps[1].svc = S
    /\ steps[2].cmd = "Start-Service" /\ steps[2].svc = S

\* fixer.py 57-136: the plan of the next attempt after step has failed
Regenerate(step, current_steps, g, n) ==
    LET S == FailedService(step, n)
        default == WinPlan(S, "default")
    IN IF RegenRaises(g) THEN default
       ELSE IF RevisionValid(Proposed(g, S, current_steps), S)
            THEN Proposed(g, S, current_steps)
            ELSE default

\* a remediator that asks for new steps on the last attempt too
MayRegenerateAlways(attempt) == TRUE
\* fixer.py 54: if attempt < max_retries
MayRegenerate(attempt) == attempt < max_retries

\* a counter that skips an attempt
NextAttemptSkips(attempt) == attempt + 2
\* fixer.py 150: attempt += 1
NextAttempt(attempt) == attempt + 1

\* one executed command: the attempt, its place in the plan, the command
\* and whether it succeeded
Ran(attempt, i, ok, step) ==
    [attempt |-> attempt, i |-> i, ok |-> ok, step |-> step]

fixVars == <<sysVars, email_requests_file, mode, active_data_sources, conn, now, poll, seen_event_ids,
             cooldown_tracker, nextRef, pending_requests, last_position, inbox,
             nextReply, incidents, sentMail, analysisCount, handoffCount,
             approvedRefs, declinedRefs, deliveries, matches, lastGate>>

\* FixerAgent.run_async 524-538 with receive_error: read fix_queue.json and
\* hand the record to the remediator of its source; a source without a
\* remediator, or a Databricks error that names no table, is dropped and
\* the file emptied
FixerRead ==
    /\ fx.pc = "idle"
    /\ fix_queue # <<>>
    /\ LET data == fix_queue[1]
           dropped == \/ ~HasRemediator(data.source, conn)
                      \/ data.source = "databricks" /\ data.error.key = "none"
       IN
       /\ fx' = [pc |-> IF dropped THEN "idle" ELSE "run",
                 data |-> <<data>>, attempt |-> 1, steps |-> data.steps,
                 i |-> 1, step_success |-> data.source # "databricks",
                 success |-> FALSE, log |-> <<>>,
                 plans |-> <<data.steps>>, said |-> <<>>, shown |-> <<>>]
       /\ fix_queue' = IF dropped THEN <<>> ELSE fix_queue
    /\ UNCHANGED <<fixVars, error_log, broadcasts>>

Running(src) ==
    /\ fx.pc = "run"
    /\ fx.data[1].source = src
    /\ fx.i <= Len(fx.steps)

\* WindowsRemediator.apply_remediation, one pass of the for loop
WindowsStep ==
    /\ Running("windows")
    /\ LET step == fx.steps[fx.i] IN
       IF ~ValidStep("windows", step)
       THEN fx' = [fx EXCEPT !.i = @ + 1]
       ELSE \E ok \in BOOLEAN, g \in RegenInputs, n \in NormInputs :
              fx' = IF ok
                    THEN [fx EXCEPT !.i = @ + 1,
                                    !.log = Append(@, Ran(fx.attempt, fx.i, TRUE, step))]
                    ELSE IF MayRegenerate(fx.attempt)
                    THEN [fx EXCEPT !.steps = Regenerate(step, fx.steps, g, n),
                                    !.plans = Append(@, Regenerate(step, fx.steps, g, n)),
                                    !.attempt = NextAttempt(@), !.i = 1,
                                    !.step_success = TRUE,
                                    !.log = Append(@, Ran(fx.attempt, fx.i, FALSE, step))]
                    ELSE [fx EXCEPT !.i = @ + 1, !.step_success = FALSE,
                                    !.log = Append(@, Ran(fx.attempt, fx.i, FALSE, step))]
    /\ UNCHANGED <<fixVars, error_log, broadcasts, fix_queue>>

\* SnowflakeRemediator / KubernetesRemediator, one pass of the for loop: a
\* failure is logged to the source's error log and the loop goes on
PlainStep(src) ==
    /\ Running(src)
    /\ LET step == fx.steps[fx.i] IN
       IF ~ValidStep(src, step)
       THEN /\ fx' = [fx EXCEPT !.i = @ + 1]
            /\ UNCHANGED error_log
       ELSE \E ok \in BOOLEAN :
              /\ fx' = [fx EXCEPT !.i = @ + 1,
                                  !.step_success = @ /\ ok,
                                  !.log = Append(@, Ran(fx.attempt, fx.i, ok, step))]
              /\ error_log' = IF ok THEN error_log
                              ELSE [error_log EXCEPT ![src] =
                                      Append(@, ErrorMessage(0, src, "none"))]
    /\ UNCHANGED <<fixVars, broadcasts, fix_queue>>

\* DatabricksRemediator, one pass of the for loop: an unsuccessful API call
\* is logged (fixer.py 496-503) and ends the loop
DatabricksStep ==
    /\ Running("databricks")
    /\ LET step == fx.steps[fx.i] IN
       IF ~ValidStep("databricks", step)
       THEN /\ fx' = [fx EXCEPT !.i = @ + 1]
            /\ UNCHANGED error_log
       ELSE \E ok \in BOOLEAN :
              /\ fx' = [fx EXCEPT !.i = IF ok THEN @ + 1 ELSE Len(fx.steps) + 1,
                                  !.step_success = @ \/ ok,
                                  !.log = Append(@, Ran(fx.attempt, fx.i, ok, step))]
              /\ error_log' = IF ok THEN error_log
                              ELSE [error_log EXCEPT !["databricks"] =
                                      Append(@, ErrorMessage(0, "databricks", "none"))]
    /\ UNCHANGED <<fixVars, broadcasts, fix_queue>>

\* the for loop is over: Windows goes round the while loop unless the pass
\* had no failure; the others return step_success.  On success with a
\* reference "remediation applied" is broadcast with the commands of the
\* remediation_steps argument (fixer.py 151-161, 188-200, 225-237, 271-283)
PassEnd ==
    /\ fx.pc = "run"
    /\ fx.i > Len(fx.steps)
    /\ LET again == /\ fx.data[1].source = "windows"
                    /\ ~fx.step_success
                    /\ KeepTrying(NextAttempt(fx.attempt))
           told == ~again /\ fx.step_success /\ fx.data[1].reference # 0
       IN
       /\ fx' = IF again
                THEN [fx EXCEPT !.attempt = NextAttempt(@), !.i = 1,
                                !.step_success = TRUE]
                ELSE [fx EXCEPT !.pc = "done", !.success = fx.step_success,
                                !.said = IF told THEN <<"remediation applied">>
                                         ELSE <<>>,
                                !.shown = IF told THEN fx.data[1].steps
                                          ELSE <<>>]
       /\ broadcasts' = IF told
                        THEN Emit(broadcasts, fx.data[1].reference,
                                  <<"remediation applied">>)
                        ELSE broadcasts
    /\ UNCHANGED <<fixVars, error_log, fix_queue>>

\* apply_remediation has returned: run_async empties fix_queue.json
\* (fixer.py 540)
FixerTruncate ==
    /\ fx.pc = "done"
    /\ fx' = [fx EXCEPT !.pc = "idle"]
    /\ fix_queue' = <<>>
    /\ UNCHANGED <<fixVars, error_log, broadcasts>>

\* SnowflakeRemediator.apply_remediation 166 raises before its loop when the
\* connection made at construction no longer answers (snowflake_conn.cursor());
\* nothing inside apply_remediation or receive_error catches it, and the
\* handler that does (run_async, except Exception, fixer.py 546-549) writes
\* to fixer.log and goes to sleep without emptying fix_queue.json
FixerRaise ==
    /\ Running("snowflake")
    /\ fx.i = 1
    /\ fx' = [fx EXCEPT !.pc = "idle"]
    /\ UNCHANGED <<fixVars, error_log, broadcasts, fix_queue>>

Remediate ==
    \/ WindowsStep
    \/ \E src \in {"snowflake", "kubernetes"} : PlainStep(src)
    \/ DatabricksStep
    \/ PassEnd
Fixer == FixerRead \/ Remediate \/ FixerTruncate \/ FixerRaise

\* what the agents hold and write
agentVars == <<email_requests_file, mode, active_data_sources, conn, now, poll, seen_event_ids,
               cooldown_tracker, nextRef, pending_requests, error_log,
               last_position, fix_queue, inbox, nextReply, fx, broadcasts,
               incidents, sentMail, analysisCount, handoffCount, approvedRefs,
               declinedRefs, deliveries, matches, lastGate>>

(* -------------------- plan regeneration on its own -------------------- *)
\* the steps that can fail: the ones WindowsRemediator runs (fixer.py 40-45)
FailingSteps ==
    {Step(cmd, svc, "llm") :
        cmd \in {"cmd /c sc config", "sc config", "Start-Service", "Get-Service"},
        svc \in {"Spooler", "spooler"}}
PlansAtFailure ==
    {WinPlan("Spooler", "llm"), WinPlan("spooler", "llm"),
     <<Step("Get-Service", "Spooler", "llm")>>}
\* fixer.py 51-136 for one failed step of one plan
Revise ==
    \E step \in FailingSteps, current_steps \in PlansAtFailure,
       g \in RegenInputs, n \in NormInputs :
      /\ regen' = [step |-> step, current_steps |-> current_steps, g |-> g,
                   n |-> n, plan |-> Regenerate(step, current_steps, g, n)]
      /\ UNCHANGED <<agents, earlier, websocket_clients, accepting, crowd, cast, agentVars>>

(* ------------------- ConnectionManager (main.py 36-92) ---------------- *)
Clients == 1..MaxClients
\* len(self.websocket_clients)
Size == Cardinality(websocket_clients) + crowd
\* what a client does when a broadcast reaches it: it takes the message,
\* its client_state is not CONNECTED, or send_json raises
Doings == {"ok", "not_connected", "WebSocketDisconnect", "WebSocketException",
           "RuntimeError closed", "RuntimeError", "Exception"}

\* a loop body without the RuntimeError clause's else branch and without
\* the last except clause
OneClientNarrow(doing) ==
    CASE doing = "ok" -> [sent |-> TRUE, remove |-> FALSE, raised |-> FALSE]
      [] doing \in {"not_connected", "WebSocketDisconnect",
                    "WebSocketException", "RuntimeError closed"} ->
            [sent |-> FALSE, remove |-> TRUE, raised |-> FALSE]
      [] OTHER -> [sent |-> FALSE, remove |-> FALSE, raised |-> TRUE]

\* broadcast 65-87, the body of the loop for one client
OneClient(doing) ==
    CASE doing = "ok" -> [sent |-> TRUE, remove |-> FALSE, raised |-> FALSE]
      [] doing = "not_connected" ->                                \* 67-70
            [sent |-> FALSE, remove |-> TRUE, raised |-> FALSE]
      [] doing = "WebSocketDisconnect" ->                          \* 74-76
            [sent |-> FALSE, remove |-> TRUE, raised |-> FALSE]
      [] doing = "WebSocketException" ->                           \* 77-79
            [sent |-> FALSE, remove |-> TRUE, raised |-> FALSE]
      [] doing = "RuntimeError closed" ->                          \* 81-83
            [sent |-> FALSE, remove |-> TRUE, raised |-> FALSE]
      [] doing = "RuntimeError" ->                                 \* 84-86
            [sent |-> FALSE, remove |-> TRUE, raised |-> FALSE]
      [] OTHER ->                                                  \* 87-89
            [sent |-> FALSE, remove |-> TRUE, raised |-> FALSE]

\* broadcast 64-92: the loop over a copy of the set, then difference_update;
\* an exception that leaves the loop body ends the call before the update
RECURSIVE Loop(_, _, _)
Loop(todo, does, acc) ==
    IF todo = {} THEN acc
    ELSE LET client == CHOOSE c \in todo : \A d \in todo : c <= d
             r == OneClient(does[client])
         IN IF r.raised THEN [acc EXCEPT !.raised = TRUE]
            ELSE Loop(todo \ {client}, does,
                      [got |-> IF r.sent THEN acc.got \cup {client} ELSE acc.got,
                       remove |-> IF r.remove THEN acc.remove \cup {client}
                                  ELSE acc.remove,
                       raised |-> FALSE])

Broadcast ==
    /\ Size > 0
    /\ \E does \in [websocket_clients -> Doings] :
         LET r == Loop(websocket_clients, does,
                       [got |-> {}, remove |-> {}, raised |-> FALSE])
         IN /\ websocket_clients' = IF r.raised THEN websocket_clients
                                     ELSE websocket_clients \ r.remove
            /\ cast' = [clients |-> websocket_clients, does |-> does,
                        got |-> r.got, raised |-> r.raised]
    /\ UNCHANGED <<agents, earlier, regen, accepting, crowd, agentVars>>

\* connect 43-46: the size test; a websocket that passes it waits for
\* accept(), one that does not is closed
ConnectCheck(client) ==
    /\ accepting' = IF Size >= MAX_CLIENTS THEN accepting
                    ELSE accepting \cup {client}
    /\ UNCHANGED websocket_clients
\* connect 46-48: accept() has returned and the websocket is added; if
\* accept() raises, websocket_endpoint 249-251 discards the websocket
ConnectAdd ==
    \E client \in accepting, accepted \in BOOLEAN :
      /\ accepting' = accepting \ {client}
      /\ websocket_clients' = IF accepted THEN websocket_clients \cup {client}
                              ELSE websocket_clients
      /\ UNCHANGED <<agents, earlier, regen, crowd, cast, agentVars>>
\* websocket_endpoint 209-211 calls connect for a new websocket
ConnectStart ==
    \E client \in Clients \ (websocket_clients \cup accepting) :
      /\ ConnectCheck(client)
      /\ UNCHANGED <<agents, earlier, regen, crowd, cast, agentVars>>
Connect == ConnectStart \/ ConnectAdd

\* disconnect 50-54
Disconnect ==
    \E client \in Clients :
      /\ websocket_clients' = websocket_clients \ {client}
      /\ UNCHANGED <<agents, earlier, regen, accepting, crowd, cast, agentVars>>

(* ----------------------- start and stop (main.py) --------------------- *)
\* stop_agents 175-196: stop() is called on the agents that have such a
\* method (MonitorAgent, EmailAgent, ErrorAnalyzerAgent and FixerAgent
\* define none and their loops are "while True" in daemon threads), then
\* the registry is cleared
StopAgents ==
    /\ agents.registered
    /\ agents' = [agents EXCEPT !.registered = FALSE]
    /\ UNCHANGED <<earlier, regen, websocket_clients, accepting, crowd, cast, agentVars>>

\* what the agents of one start_agents call hold in memory: the monitors'
\* mode, search, seen ids and cooldown entries, the EmailAgent's pending
\* map, the tail's positions and the fixer's pass. The variables of these
\* names are the state of the agents in focus.
Gen == [mode |-> mode, poll |-> poll, seen_event_ids |-> seen_event_ids,
        cooldown_tracker |-> cooldown_tracker,
        pending_requests |-> pending_requests,
        last_position |-> last_position, fx |-> fx]

\* start_agents 121-171 called again: new agents are built and their
\* threads started; nothing ends the threads of the agents built before,
\* which keep their own state
StartAgents ==
    \E m \in Modes :
      /\ agents.starts < MaxStarts
      /\ agents' = [agents EXCEPT !.registered = TRUE, !.starts = @ + 1]
      /\ earlier' = Append(earlier, Gen)
      /\ mode' = m
      /\ poll' = Idle
      /\ seen_event_ids' = [s \in Sources |-> {}]
      /\ cooldown_tracker' = <<>>
      /\ last_position' = [s \in Sources |-> 0]
      /\ fx' = FxIdle
      /\ pending_requests' = IF m = "semi-autonomous"
                             THEN LoadPending(email_requests_file)
                             ELSE <<>>
      /\ UNCHANGED <<regen, websocket_clients, accepting, crowd, cast, email_requests_file,
                     active_data_sources, conn, now,
                     nextRef, error_log, fix_queue, inbox, nextReply,
                     broadcasts, incidents, sentMail, analysisCount,
                     handoffCount, approvedRefs, declinedRefs, deliveries,
                     matches, lastGate>>

\* the scheduler turns to the threads of an earlier start_agents call
Switch ==
    \E g \in 1..Len(earlier) :
      /\ earlier' = [earlier EXCEPT ![g] = Gen]
      /\ mode' = earlier[g].mode
      /\ poll' = earlier[g].poll
      /\ seen_event_ids' = earlier[g].seen_event_ids
      /\ cooldown_tracker' = earlier[g].cooldown_tracker
      /\ pending_requests' = earlier[g].pending_requests
      /\ last_position' = earlier[g].last_position
      /\ fx' = earlier[g].fx
      /\ UNCHANGED <<agents, regen, websocket_clients, accepting, crowd, cast, email_requests_file,
                     active_data_sources, conn, now, nextRef, error_log, fix_queue, inbox, nextReply,
                     broadcasts, incidents, sentMail, analysisCount,
                     handoffCount, approvedRefs, declinedRefs, deliveries,
                     matches, lastGate>>

\* the server process ends and is started again in the same mode:
\* start_agents builds every agent anew. The monitors' seen ids and
\* cooldown entries (monitor.py 19-30), the tail's positions (agent.py
\* 958-1000) and the fixer's pass are gone; EmailAgent.__init__ reads
\* email_requests.json (email_agent.py 43); the log files, fix_queue.json
\* and the mailbox are as they were
Restart ==
    /\ agents.boots < MaxBoots
    /\ agents' = [Started EXCEPT !.boots = agents.boots + 1]
    /\ earlier' = <<>>
    /\ poll' = Idle
    /\ seen_event_ids' = [s \in Sources |-> {}]
    /\ cooldown_tracker' = <<>>
    /\ last_position' = [s \in Sources |-> 0]
    /\ fx' = FxIdle
    /\ pending_requests' = IF mode = "semi-autonomous"
                           THEN LoadPending(email_requests_file)
                           ELSE pending_requests
    /\ UNCHANGED <<regen, websocket_clients, accepting, crowd, cast, email_requests_file, mode,
                   active_data_sources, conn, now, nextRef, error_log, fix_queue, inbox, nextReply, broadcasts,
                   incidents, sentMail, analysisCount, handoffCount,
                   approvedRefs, declinedRefs, deliveries, matches, lastGate>>

(* --------------------------- specifications --------------------------- *)
\* the whole program
Next == Tick \/ Monitor \/ Mail \/ Tail_ \/ Fixer
Spec == Init /\ [][Next]_vars

\* the monitors alone, both modes, with the clock
NextGate == Tick \/ Monitor
SpecGate == Init /\ [][NextGate]_vars

\* one incident in semi-autonomous mode: monitor, inbox loop, error-log tail
InitSupervised == Init /\ mode = "semi-autonomous" /\ nextRef = MaxRefs
NextSupervised == MonitorSupervised \/ Mail \/ Tail_
SpecSupervised == InitSupervised /\ [][NextSupervised]_vars

\* the classifier on every body: an approval request for a Windows incident
\* is pending and the human's reply to it is unread
InitIntent ==
    \E b \in Bodies :
      LET ref == MaxRefs
          em == ErrorMessage(ref, "windows", "Spooler")
          id == MessageId(ref, 1)
      IN
      /\ SysInit
      /\ mode = "semi-autonomous"
      /\ active_data_sources = {"windows"}
      /\ conn = [analyzer |-> TRUE, fixer |-> TRUE]
      /\ now = 0
      /\ poll = Idle
      /\ seen_event_ids = [s \in Sources |-> IF s = "windows" THEN {"w1"} ELSE {}]
      /\ cooldown_tracker = <<>>
      /\ nextRef = ref + 1
      /\ pending_requests =
            Put(<<>>, ref, [error_message |-> em, source |-> "windows",
                            message_id |-> id])
      /\ email_requests_file = SavePending(pending_requests)
      /\ error_log = [s \in Sources |-> <<>>]
      /\ last_position = [s \in Sources |-> 0]
      /\ fix_queue = <<>>
      /\ inbox = {Reply(1, id, b)}
      /\ nextReply = 2
      /\ fx = FxIdle
      /\ broadcasts = Emit(<<>>, ref, <<"error detected", "email sent">>)
      /\ incidents = Put(<<>>, ref, [src |-> "windows", key |-> "Spooler",
                                     id |-> "w1", at |-> 0])
      /\ sentMail = {[id |-> id, ref |-> ref]}
      /\ analysisCount = <<>>
      /\ handoffCount = <<>>
      /\ approvedRefs = {}
      /\ declinedRefs = {}
      /\ deliveries = <<>>
      /\ matches = <<>>
      /\ lastGate = [src |-> "windows", id |-> "w1", decision |-> "accepted",
                     key |-> "Spooler", ref |-> ref]
NextIntent == EmailProcess
SpecIntent == InitIntent /\ [][NextIntent]_vars

\* one incident in autonomous mode: monitor, error-log tail and fixer; a
\* remediation that has started keeps running
InitFix == Init /\ mode = "autonomous" /\ nextRef = MaxRefs
NextFix == MonitorAutonomous \/ Tail_ \/ Fixer
SpecFix == InitFix /\ [][NextFix]_vars /\ WF_vars(Remediate \/ FixerTruncate)

\* two incidents in autonomous mode: the Windows monitor and the fixer
\* loop, each scheduled fairly (monitor.py 514-526 and fixer.py 520-554
\* poll for ever)
WindowsMonitorAutonomous == Poll \/ SkipEvent \/ AcceptAutonomous \/ PollEnd
WindowsFixer == FixerRead \/ WindowsStep \/ PassEnd \/ FixerTruncate
InitRace ==
    /\ Init
    /\ mode = "autonomous"
    /\ active_data_sources = {"windows"}
    /\ conn.analyzer
    /\ nextRef = MaxRefs - 1
NextRace == WindowsMonitorAutonomous \/ WindowsFixer
SpecRace ==
    /\ InitRace
    /\ [][NextRace]_vars
    /\ WF_vars(WindowsMonitorAutonomous)
    /\ WF_vars(WindowsFixer)

\* two incidents in semi-autonomous mode: the Windows monitor and the
\* inbox loop
InitParked ==
    /\ Init
    /\ mode = "semi-autonomous"
    /\ active_data_sources = {"windows"}
    /\ conn.analyzer
    /\ nextRef = MaxRefs - 1
NextParked == MonitorSupervised \/ Mail
SpecParked == InitParked /\ [][NextParked]_vars

\* one incident in autonomous mode with a stop request: the Windows
\* monitor, the fixer and the stop-agents endpoint
InitStop ==
    /\ Init
    /\ mode = "autonomous"
    /\ active_data_sources = {"windows"}
    /\ conn.analyzer
    /\ nextRef = MaxRefs
NextStop == StopAgents \/ WindowsMonitorAutonomous \/ WindowsFixer
SpecStop == InitStop /\ [][NextStop]_vars

\* one Windows incident in semi-autonomous mode across a restart of the
\* process: monitor, inbox loop and the restart
InitRestart ==
    /\ Init
    /\ mode = "semi-autonomous"
    /\ active_data_sources = {"windows"}
    /\ conn.analyzer
    /\ nextRef = MaxRefs
NextRestart == MonitorSupervised \/ Mail \/ Restart
SpecRestart == InitRestart /\ [][NextRestart]_vars

\* start_agents called again while the Windows monitor of the first call
\* runs: the monitors of both calls, in either mode
InitStart ==
    /\ Init
    /\ active_data_sources = {"windows"}
    /\ conn.analyzer
    /\ nextRef = MaxRefs
NextStart == MonitorSupervised \/ AcceptAutonomous \/ StartAgents \/ Switch
SpecStart == InitStart /\ [][NextStart]_vars

\* the connection manager alone: websockets come and go and messages are
\* broadcast to them
InitWs ==
    /\ Init
    /\ mode = "autonomous"
    /\ active_data_sources = {"windows"}
    /\ conn.analyzer
    /\ nextRef = 1
NextWs == Connect \/ Disconnect \/ Broadcast
SpecWs == InitWs /\ [][NextWs]_vars

\* the connection manager one observer short of its limit: MAX_CLIENTS - 1
\* websockets have connected one after the other and stay connected
InitConnect ==
    /\ SysStart
    /\ crowd = MAX_CLIENTS - 1
    /\ AgentsInit
    /\ mode = "autonomous"
    /\ active_data_sources = {"windows"}
    /\ conn.analyzer
    /\ nextRef = 1
SpecConnect == InitConnect /\ [][NextWs]_vars

\* a Databricks incident in autonomous mode whose remediation can fail:
\* monitor, error-log tail and fixer, with a reference left for what the
\* tail reads
DatabricksFixer == FixerRead \/ DatabricksStep \/ PassEnd \/ FixerTruncate
InitFeedback ==
    /\ Init
    /\ mode = "autonomous"
    /\ active_data_sources = {"databricks"}
    /\ conn.analyzer
    /\ nextRef = MaxRefs - 1
NextFeedback ==
    WindowsMonitorAutonomous \/ AnalyzerTail("databricks") \/ DatabricksFixer
SpecFeedback == InitFeedback /\ [][NextFeedback]_vars

\* the Windows remediator's plan regeneration on every failed step, plan,
\* answer of the model and outcome of the name lookup
NextRegen == Revise
SpecRegen == InitWs /\ [][NextRegen]_vars

(* ------------------------------ properties ---------------------------- *)
Analyzed == DOMAIN analysisCount \cup DOMAIN handoffCount

\* C1: in semi-autonomous mode no incident is analyzed, and no handoff is
\* written for it, before a reply to its approval request has been
\* classified as approved
C1_ApprovalFirst ==
    mode = "semi-autonomous" => \A ref \in Analyzed : ref \in approvedRefs

SameEvent(r1, r2) ==
    /\ incidents[r1].src = incidents[r2].src
    /\ incidents[r1].id = incidents[r2].id
\* the event at the head of the batch was accepted before
Redelivered ==
    /\ Looking
    /\ \E r \in DOMAIN incidents :
          incidents[r].src = poll.src /\ incidents[r].id = Current.id

\* C2: of the signals a monitor gets with one event id only the first is
\* accepted; a later one gets no reference and causes no broadcast, no
\* approval request, no analysis and no handoff
C2_Dedup ==
    /\ [](\A r1, r2 \in DOMAIN incidents : SameEvent(r1, r2) => r1 = r2)
    /\ [][Redelivered =>
            UNCHANGED <<nextRef, incidents, broadcasts, sentMail,
                        pending_requests, analysisCount, handoffCount,
                        fix_queue, error_log>>]_vars
C2_Witness ==
    /\ lastGate.decision = "duplicate"
    /\ \E r \in DOMAIN incidents :
          incidents[r].src = lastGate.src /\ incidents[r].id = lastGate.id

Apart(t1, t2) == t1 - t2 >= cooldown_period \/ t2 - t1 >= cooldown_period
\* C3: a Kubernetes signal for a pod is not accepted less than
\* cooldown_period seconds after an incident for the same pod was, on any
\* parsing path
C3_Cooldown ==
    \A r1, r2 \in DOMAIN incidents :
        /\ r1 # r2
        /\ incidents[r1].src = "kubernetes" /\ incidents[r2].src = "kubernetes"
        /\ incidents[r1].key = incidents[r2].key
        => Apart(incidents[r1].at, incidents[r2].at)

\* C4: no two incidents for one resource key are open at once; here, no two
\* await approval together
C4_OneOpenPerKey ==
    \A r1, r2 \in DOMAIN pending_requests :
        /\ pending_requests[r1].source = pending_requests[r2].source
        /\ pending_requests[r1].error_message.key
             = pending_requests[r2].error_message.key
        => r1 = r2

WindowsRun == fx.pc = "run" /\ fx.data[1].source = "windows"
\* C5: WindowsRemediator.apply_remediation starts at most max_retries
\* passes over the plan, and returns, with success or without
C5_BoundedRetries ==
    /\ [](WindowsRun =>
            /\ fx.attempt <= max_retries
            /\ \A k \in 1..Len(fx.log) : fx.log[k].attempt <= max_retries)
    /\ (WindowsRun ~> (fx.pc = "done" /\ fx.success \in BOOLEAN))
C5_Witness ==
    /\ fx.pc = "done" /\ fx.data[1].source = "windows" /\ ~fx.success
    /\ \E k \in 1..Len(fx.log) : fx.log[k].attempt = max_retries

PlanOk(src, steps) ==
    /\ steps # <<>>
    /\ \A k \in 1..Len(steps) : ValidStep(src, steps[k])
\* C6: every handoff record, and every plan a remediator is started with,
\* is non-empty and made of steps that pass the source's validation
C6_ValidPlanOnly ==
    /\ fix_queue # <<>> => PlanOk(fix_queue[1].source, fix_queue[1].steps)
    /\ fx.pc = "run" => PlanOk(fx.data[1].source, fx.data[1].steps)

\* C7: a reply delivered more than once matches a pending request on its
\* first delivery only
C7_ResolvedOnce ==
    \A id \in DOMAIN matches : Len(matches[id]) <= 1

\* C8: the message id stored with a pending request is the id of every
\* approval request that was sent for the incident
C8_StoredIdIsSentId ==
    \A ref \in DOMAIN pending_requests : \A m \in sentMail :
        m.ref = ref => m.id = pending_requests[ref].message_id

HasWord(body, words) == \E word \in words : Contains(Lower(body), word)
Ambiguous(body) ==
    \/ ~HasWord(body, approve_words)
    \/ HasWord(body, approve_words) /\ HasWord(body, decline_words)
\* C9: every classified body is approved or declined, and a body with no
\* approve keyword, or with both an approve and a decline keyword, is
\* declined
C9_AmbiguousDeclined ==
    \A id \in DOMAIN matches : \A k \in 1..Len(matches[id]) :
        LET m == matches[id][k] IN
        m.intent # "none" =>
            /\ m.intent \in {"Request_approved", "Request_declined"}
            /\ Ambiguous(m.body) => m.intent = "Request_declined"

\* C10: within one pass the steps run in plan order and none runs after a
\* step of that pass has failed
C10_StopAtFailure ==
    \A j, k \in 1..Len(fx.log) :
        j < k /\ fx.log[j].attempt = fx.log[k].attempt
        => fx.log[j].i < fx.log[k].i /\ fx.log[j].ok

\* the entries the log of the running remediation holds for one attempt
RanIn(attempt) == {j \in 1..Len(fx.log) : fx.log[j].attempt = attempt}

\* C11: a remediation that ends in success has applied every step of the
\* plan of its last attempt, each reporting success, and that plan has at
\* least one step.
C11_SuccessMeansAllApplied ==
    (fx.pc = "done" /\ fx.success) =>
        /\ fx.steps # <<>>
        /\ \A i \in 1..Len(fx.steps) :
             \E j \in RanIn(fx.attempt) :
               fx.log[j].i = i /\ fx.log[j].ok /\ fx.log[j].step = fx.steps[i]
        /\ \A j \in RanIn(fx.attempt) : fx.log[j].ok

\* C12: a remediation of an incident that has ended, in success or not,
\* has broadcast one terminal status under the incident's reference.
C12_TerminalBroadcast ==
    (fx.pc = "done" /\ fx.data[1].reference # 0) => Len(fx.said) = 1

\* C13: the commands listed by the "remediation applied" broadcast are
\* the plan of the attempt that succeeded.
C13_BroadcastListsExecuted ==
    (fx.pc = "done" /\ fx.said # <<>>) => fx.shown = fx.steps

WindowsDone == fx.pc = "done" /\ fx.data[1].source = "windows"
\* some command of the attempt failed
Failed(attempt) == \E j \in RanIn(attempt) : ~fx.log[j].ok

\* C14: the Windows remediator succeeds exactly at the first attempt k in
\* which no step fails, after k attempts and k - 1 regenerated plans, and
\* fails only if each of the max_retries attempts had a failing step.
C14_FirstCleanAttempt ==
    WindowsDone =>
        /\ fx.attempt \in 1..max_retries
        /\ \A a \in 1..(fx.attempt - 1) : Failed(a)
        /\ fx.success <=> ~Failed(fx.attempt)
        /\ fx.success => Len(fx.plans) = fx.attempt
        /\ ~fx.success => fx.attempt = max_retries
\* the first step failed on attempts 1 and 2 and attempt 3 ran both steps
\* of its plan with success
C14_Witness ==
    /\ WindowsDone /\ fx.success /\ fx.attempt = 3
    /\ \A a \in {1, 2} : \E j \in RanIn(a) : fx.log[j].i = 1 /\ ~fx.log[j].ok
    /\ Cardinality(RanIn(3)) = 2
    /\ Len(fx.plans) = 3

\* the plans the program's state associates with an incident: the handoff
\* record in fix_queue.json and the command list of its terminal broadcast
AuditPlans(ref) ==
    {fix_queue[j].steps : j \in {n \in 1..Len(fix_queue) :
                                   fix_queue[n].reference = ref}}
    \cup (IF fx.data # <<>> /\ fx.data[1].reference = ref /\ fx.said # <<>>
          THEN {fx.shown} ELSE {})

\* C15: when the Windows remediator has failed max_retries times, the
\* outcome is failure and every plan it attempted is kept with the incident.
C15_ExhaustedKeepsPlans ==
    (WindowsDone /\ ~fx.success /\ fx.data[1].reference # 0) =>
        /\ Len(fx.plans) = max_retries
        /\ \A p \in 1..Len(fx.plans) :
             fx.plans[p] \in AuditPlans(fx.data[1].reference)

\* a plan of the model in which every step passes validation: every step
\* is a command its remediator runs, on the incident's resource, and a
\* Windows plan is the sc config / Start-Service pair
WellFormed(src, plan, key) ==
    /\ plan # <<>>
    /\ \A i \in 1..Len(plan) : ValidStep(src, plan[i]) /\ plan[i].svc = key
    /\ src = "windows" =>
         /\ Len(plan) = 2
         /\ plan[1].cmd = "cmd /c sc config"
         /\ plan[2].cmd = "Start-Service"
HandoffsHeld ==
    {fix_queue[j] : j \in 1..Len(fix_queue)} \cup {fx.data[j] : j \in 1..Len(fx.data)}

\* C16: a well-formed plan of the model is handed over unchanged, and the
\* first attempt of its remediation runs its steps in order, from the
\* first on, each as given; an attempt 1 without failure ran them all.
C16_ValidPlanAsGiven ==
    /\ \A h \in HandoffsHeld :
         WellFormed(h.source, h.llm, h.error.key) => h.steps = h.llm
    /\ \A j \in 1..Len(fx.data) :
         LET h == fx.data[j] IN
         WellFormed(h.source, h.llm, h.error.key) =>
           /\ \A n \in RanIn(1) : fx.log[n].i = n /\ fx.log[n].step = h.llm[n]
           /\ (fx.pc = "done" /\ ~Failed(1)) => Cardinality(RanIn(1)) = Len(h.llm)
\* a remediation of a well-formed two-step plan has ended with both steps
\* run on the first attempt
C16_Witness ==
    /\ fx.pc = "done" /\ fx.attempt = 1 /\ Len(fx.log) = 2
    /\ WellFormed(fx.data[1].source, fx.data[1].llm, fx.data[1].error.key)

\* the handoff file holds a plan for the incident that is non-empty and
\* made of steps its remediator runs
HandedOver(ref) ==
    /\ fix_queue # <<>>
    /\ fix_queue[1].reference = ref
    /\ PlanOk(fix_queue[1].source, fix_queue[1].steps)
Applied(ref) ==
    /\ ref \in DOMAIN broadcasts
    /\ \E j \in 1..Len(broadcasts[ref]) : broadcasts[ref][j] = "remediation applied"
StepFailed(ref) ==
    /\ fx.data # <<>>
    /\ fx.data[1].reference = ref
    /\ \E j \in 1..Len(fx.log) : ~fx.log[j].ok

NewMatch(id) ==
    /\ id \in DOMAIN matches'
    /\ Len(matches'[id]) > (IF id \in DOMAIN matches THEN Len(matches[id]) ELSE 0)
LastMatch(id) == matches'[id][Len(matches'[id])]

\* C18: the step that classifies a matching reply as approved invokes the
\* analyzer for the incident and writes a handoff with the incident's
\* reference, stored error message and source.
C18_ApprovedIsHandedOver ==
    [][\A id \in 1..MaxReplies :
         (NewMatch(id) /\ LastMatch(id).intent = "Request_approved") =>
            LET ref == LastMatch(id).ref IN
            /\ ref \in approvedRefs'
            /\ Count(analysisCount', ref) = Count(analysisCount, ref) + 1
            /\ Count(handoffCount', ref) = Count(handoffCount, ref) + 1
            /\ fix_queue' # <<>>
            /\ fix_queue'[1].reference = ref
            /\ fix_queue'[1].error = pending_requests[ref].error_message
            /\ fix_queue'[1].source = pending_requests[ref].source]_vars

\* C19: an incident whose reply was classified declined is no longer
\* pending and was never analyzed, and from then on it is not analyzed and
\* no handoff is written for it.
C19_DeclinedIsTerminal ==
    /\ [](\A ref \in declinedRefs :
            ref \notin DOMAIN pending_requests /\ Count(analysisCount, ref) = 0)
    /\ [][\A ref \in declinedRefs :
            /\ Count(analysisCount', ref) = Count(analysisCount, ref)
            /\ Count(handoffCount', ref) = Count(handoffCount, ref)]_vars

\* the reply answers none of the stored approval requests
NoStoredId(msg) ==
    \/ msg.in_reply_to = NoMessage
    \/ \A ref \in DOMAIN pending_requests :
         pending_requests[ref].message_id # msg.in_reply_to
Delivered(msg) == Count(deliveries', msg.id) > Count(deliveries, msg.id)

C21_BatchGoesOn ==
    [][Looking => (poll' = poll \/ poll'.events = Tail(poll.events))]_vars

Parked == DOMAIN pending_requests
Resolved == approvedRefs \cup declinedRefs

\* C22: with incidents parked, a monitor that is between two calls can
\* start its next call and a monitor at an acceptable signal can accept
\* it; and a reply is matched to the incident whose approval request it
\* answers, whatever else is parked, leaving the other parked incidents
\* as they are.
C22_ParkedDoNotBlock ==
    /\ []((Parked # {} /\ poll = Idle /\ nextRef <= MaxRefs) => ENABLED Poll)
    /\ []((Parked # {} /\ Looking /\ Fresh /\ Verdict.decision = "accepted"
           /\ nextRef <= MaxRefs) => ENABLED AcceptSupervised)
    /\ [][\A id \in 1..MaxReplies :
            NewMatch(id) =>
              LET ref == LastMatch(id).ref IN
              /\ \E msg \in inbox :
                   /\ msg.id = id
                   /\ pending_requests[ref].message_id = msg.in_reply_to
              /\ \A other \in Parked \ {ref} :
                   /\ other \in DOMAIN pending_requests'
                   /\ pending_requests'[other] = pending_requests[other]]_vars
\* the incident created second was resolved while the one created first
\* is still parked
C22_Witness ==
    \E first \in Parked, second \in Resolved :
        first < second /\ second \notin Parked

\* C23: once stop_agents has cleared the registry, no monitor starts a
\* search, the fixer starts no remediation, the tail and the inbox loop
\* read nothing and no incident is created.
C23_StoppedStaysStopped ==
    [][~agents.registered =>
         /\ poll = Idle => poll' = Idle
         /\ fx.pc = "idle" => fx'.pc = "idle"
         /\ last_position' = last_position
         /\ deliveries' = deliveries
         /\ nextRef' = nextRef]_vars

\* C24: after every add and every remove email_requests.json holds exactly
\* the in-memory pending map, and the EmailAgent built by a restart holds
\* exactly the entries that were pending when the process ended.
C24_PendingSurvivesRestart ==
    /\ [](LoadPending(email_requests_file) = pending_requests)
    /\ [][agents'.boots > agents.boots => pending_requests' = pending_requests]_vars

Deciding(p) == p.src # "idle" /\ p.events # <<>>
\* C25: while one caller of a monitor's search is deciding on a signal, no
\* other caller is deciding on a signal of the same source and resource
\* key, however often start_agents was called.
C25_OneDecider ==
    \A g \in 1..Len(earlier) :
        ~(/\ Deciding(poll) /\ Deciding(earlier[g].poll)
          /\ poll.src = earlier[g].poll.src
          /\ Head(poll.events).key = Head(earlier[g].poll.events).key)

\* C26: a broadcast never raises to its caller; every client that is not
\* connected or whose send raises is no longer in the client set after it;
\* every other client of the set has got the message and is still in it.
C26_BestEffortBroadcast ==
    [][cast' # cast =>
         /\ ~cast'.raised
         /\ \A client \in cast'.clients :
              IF cast'.does[client] = "ok"
              THEN client \in cast'.got /\ client \in websocket_clients'
              ELSE client \notin websocket_clients']_vars
C26_Witness ==
    \E good, bad, worse \in cast.clients :
        /\ cast.does[good] = "ok" /\ good \in cast.got
        /\ cast.does[bad] = "RuntimeError" /\ bad < good
        /\ cast.does[worse] = "Exception"

\* C27: every broadcast carries the reference of a detected incident, and
\* the reference of every handoff record is the one in its error message
\* and the one assigned to the incident at detection.
C27_OneReference ==
    /\ DOMAIN broadcasts \subseteq DOMAIN incidents
    /\ \A i \in 1..Len(fix_queue) :
          /\ fix_queue[i].reference = fix_queue[i].error.ref
          /\ fix_queue[i].reference \in DOMAIN incidents

\* the pod a Kubernetes signal is about: the key its incident gets
PodKey(ev) ==
    IF ev.json /\ ev.status THEN ev.objKey ELSE ev.rxKey
Signal ==
    /\ Looking /\ poll.src = "kubernetes"
    /\ Current.ok /\ PodKey(Current) # "none"
Ruled ==
    IF Current.id \in seen_event_ids[poll.src] THEN "duplicate"
    ELSE IF /\ PodKey(Current) \in DOMAIN cooldown_tracker
            /\ poll.current_time - cooldown_tracker[PodKey(Current)].timestamp
                    < cooldown_period
         THEN "cooled_down"
         ELSE "accepted"
\* C28: the Kubernetes gate rules a signal a duplicate if its event id has
\* been seen, else cooled down if its pod has a cooldown entry less than
\* cooldown_period old, else it accepts it: one new reference, one incident,
\* and the pod's cooldown entry set to the decision time and that reference.
C28_GateRule ==
    [][Signal /\ poll'.events = Tail(poll.events) =>
         /\ lastGate'.decision = Ruled
         /\ Ruled = "accepted" =>
               /\ nextRef' = nextRef + 1
               /\ DOMAIN incidents' = DOMAIN incidents \cup {nextRef}
               /\ PodKey(Current) \in DOMAIN cooldown_tracker'
               /\ cooldown_tracker'[PodKey(Current)] =
                     [timestamp |-> poll.current_time, reference |-> nextRef]]_vars

\* the key the Kubernetes monitor looks up in its cooldown map
CheckedKey(ev) == IF ev.json THEN ev.objKey ELSE ev.rxKey
Rejected ==
    /\ Looking
    /\ \/ Current.id \in seen_event_ids[poll.src]
       \/ /\ poll.src = "kubernetes" /\ Current.ok
          /\ CheckedKey(Current) \in DOMAIN cooldown_tracker
          /\ poll.current_time - cooldown_tracker[CheckedKey(Current)].timestamp
                < cooldown_period
\* C29: a monitor's pass over a signal whose event id it has seen, or whose
\* pod has a cooldown entry less than cooldown_period old, draws no
\* reference, broadcasts nothing, sends no mail, writes no error log, no
\* handoff and no pending approval, and leaves every cooldown entry as it was.
C29_RejectionIsSilent ==
    [][Rejected /\ poll'.events = Tail(poll.events) =>
         UNCHANGED <<nextRef, incidents, broadcasts, sentMail, error_log,
                     fix_queue, pending_requests, email_requests_file,
                     analysisCount, handoffCount, cooldown_tracker>>]_vars
C29_Witness ==
    /\ lastGate.decision = "cooled_down"
    /\ poll.src = "kubernetes"
    /\ lastGate.key \in DOMAIN cooldown_tracker
    /\ poll.current_time > cooldown_tracker[lastGate.key].timestamp

ServiceOf(r) ==
    IF r.step.cmd = "Get-Service" THEN "Spooler"
    ELSE IF r.n = "unknown" THEN r.step.svc
    ELSE IF r.step.svc = "spooler" THEN "Spooler" ELSE r.step.svc
TwoStepForm(plan, S) ==
    /\ Len(plan) = 2
    /\ plan[1].cmd = "cmd /c sc config" /\ plan[1].svc = S
    /\ plan[2].cmd = "Start-Service" /\ plan[2].svc = S
\* C30: whatever the model answers, the plan after a regeneration is the
\* sc config command and the Start-Service command for the failed step's
\* normalized service (or Spooler), and it is the default plan unless the
\* answer had exactly that form.
C30_RegeneratedPlanForm ==
    regen # NoRegen =>
        /\ TwoStepForm(regen.plan, ServiceOf(regen))
        /\ ~(\/ regen.g = "valid"
             \/ regen.g = "no_key"
                  /\ TwoStepForm(regen.current_steps, ServiceOf(regen)))
              => regen.plan = WinPlan(ServiceOf(regen), "default")
C30_Witness ==
    /\ regen.g = "three_steps"
    /\ regen.step = Step("Start-Service", "spooler", "llm")
    /\ regen.n = "by_display"
    /\ regen.plan = WinPlan("Spooler", "default")

Regenerated == fx.pc = "run" /\ Len(fx'.plans) > Len(fx.plans)
\* C31: the Windows remediator asks for new steps only when a step has
\* failed on an attempt before the last, once per attempt, so one
\* remediation sees at most max_retries - 1 regenerated plans.
C31_RegenerationBudget ==
    /\ [](WindowsRun => Len(fx.plans) - 1 <= max_retries - 1)
    /\ [][Regenerated =>
            /\ fx.attempt < max_retries
            /\ Len(fx.plans) = fx.attempt
            /\ Len(fx'.plans) = Len(fx.plans) + 1
            /\ fx'.attempt = fx.attempt + 1
            /\ Len(fx'.log) = Len(fx.log) + 1
            /\ ~fx'.log[Len(fx'.log)].ok
            /\ fx'.log[Len(fx'.log)].attempt = fx.attempt]_vars
\* three attempts, two regenerated plans, a failure on the third attempt
\* and no fourth plan
C31_Witness ==
    /\ WindowsDone /\ ~fx.success /\ Len(fx.plans) = max_retries
    /\ \E j \in RanIn(max_retries) : ~fx.log[j].ok

\* C32: no incident reference is analyzed more than once and no reference
\* gets more than one handoff record.
C32_AnalyzedOnce ==
    \A ref \in DOMAIN incidents :
        Count(analysisCount, ref) <= 1 /\ Count(handoffCount, ref) <= 1

\* C33: a handoff record in fix_queue.json is replaced only by a record of
\* the same reference and emptied only after the fixer has read that record.
C33_HandoffNotLost ==
    [][(fix_queue # <<>> /\ fix_queue' # fix_queue) =>
          IF fix_queue' = <<>>
          THEN fx.data = fix_queue
          ELSE fix_queue'[1].reference = fix_queue[1].reference]_vars

\* C34: when the inbox loop has matched a reply to a pending request, the
\* request is gone from the in-memory map and from email_requests.json once
\* the reply has been processed, whatever the intent and whatever raised.
C34_RemovedOnEveryPath ==
    [][\A id \in 1..MaxReplies :
         NewMatch(id) =>
            /\ LastMatch(id).ref \notin DOMAIN pending_requests'
            /\ \A member \in email_requests_file' :
                  member[1] # LastMatch(id).ref]_vars

\* the places of a status in the broadcasts of a reference
Places(ref, status) ==
    {j \in 1..Len(broadcasts[ref]) : broadcasts[ref][j] = status}
Before(ref, first, second) ==
    \A j \in Places(ref, second) : \E i \in Places(ref, first) : i < j
NotAfter(ref, first, second) ==
    \A i \in Places(ref, first), j \in Places(ref, second) : j < i
\* C35: for every reference "error detected" is the first broadcast; in
\* semi-autonomous mode "email sent" comes before "email received", that
\* before "intent analyzed" and that before "analysis complete";
\* "remediation applied" comes after an "analysis complete"; and after
\* "analysis failed" neither "analysis complete" nor "remediation applied"
\* is broadcast.
C35_LifecycleOrder ==
    \A ref \in DOMAIN broadcasts :
        /\ broadcasts[ref][1] = "error detected"
        /\ mode = "semi-autonomous" =>
              /\ Before(ref, "email sent", "email received")
              /\ Before(ref, "email received", "intent analyzed")
              /\ Before(ref, "intent analyzed", "analysis complete")
        /\ Before(ref, "analysis complete", "remediation applied")
        /\ NotAfter(ref, "analysis failed", "analysis complete")
        /\ NotAfter(ref, "analysis failed", "remediation applied")

\* a pass of the fixer loop over a record is over: the record was dropped at
\* once, or the remediator that took it has returned or raised
PassOver ==
    \/ fx.pc = "idle" /\ fix_queue # <<>> /\ fx' # fx /\ fx'.pc = "idle"
    \/ fx.pc # "idle" /\ fx'.pc = "idle"

\* C36: after one pass of the fixer loop over a non-empty queue the queue is
\* empty, whether the remediation succeeded, failed, was skipped for a
\* source without a remediator, or raised; so no record is run again on a
\* later cycle
C36_QueueEmptyAfterPass == [][PassOver => fix_queue' = <<>>]_vars

\* the monitor has just finished its pass over the event at the head
Passed == Looking /\ poll'.events = Tail(poll.events)
\* C37: an event id is in the monitor's seen set from the pass that first
\* reads it, whatever the pass decides (accepted, filtered, inside the
\* cooldown window, processing raised); the seen sets only grow; and a pass
\* over an event whose id is in the set rejects it as a duplicate, also
\* when the cooldown window that rejected it before is over
C37_SeenAtFirstRead ==
    /\ [][\A s \in Sources : seen_event_ids[s] \subseteq seen_event_ids'[s]]_vars
    /\ [][Passed => Current.id \in seen_event_ids'[poll.src]]_vars
    /\ [][Passed /\ Current.id \in seen_event_ids[poll.src] =>
            /\ lastGate'.decision = "duplicate"
            /\ UNCHANGED <<nextRef, incidents, broadcasts, cooldown_tracker>>]_vars
\* a Kubernetes signal that was never accepted, whose pod is out of its
\* cooldown window by now, is turned away as a duplicate
C37_Witness ==
    /\ lastGate.decision = "duplicate" /\ lastGate.src = "kubernetes"
    /\ \A r \in DOMAIN incidents : incidents[r].id # lastGate.id
    /\ \E ev \in EventsOf("kubernetes") :
          /\ ev.id = lastGate.id
          /\ KubernetesGate(ev, cooldown_tracker, now).decision = "accepted"
          /\ KubernetesGate(ev, cooldown_tracker, 0).decision = "cooled_down"

\* send_email returned False for the incident: "email sent" is broadcast on
\* the returning-True path only (email_agent.py 160-167)
SendFailed(ref) == Places(ref, "email sent") = {}
\* C38: send_email makes at most email_max_retries attempts for an incident;
\* the pending-approval record of the reference exists after the call iff
\* the call returned true; and an incident whose attempts all failed has no
\* record, no "email sent" broadcast, and is never analysed or handed to
\* the fixer
C38_FailedSendStops ==
    /\ [](\A ref \in DOMAIN incidents :
            Cardinality({mail \in sentMail : mail.ref = ref}) <= email_max_retries)
    /\ [][nextRef' # nextRef /\ mode = "semi-autonomous" =>
            (nextRef \in DOMAIN pending_requests' <=>
               \E j \in 1..Len(broadcasts'[nextRef]) :
                   broadcasts'[nextRef][j] = "email sent")]_vars
    /\ [](\A ref \in DOMAIN incidents :
            mode = "semi-autonomous" /\ SendFailed(ref) =>
               /\ ref \notin DOMAIN pending_requests
               /\ Count(analysisCount, ref) = 0
               /\ Count(handoffCount, ref) = 0
               /\ Places(ref, "analysis complete") = {}
               /\ Places(ref, "remediation applied") = {}
               /\ \A j \in 1..Len(fix_queue) : fix_queue[j].reference # ref)

\* the pending request of ref is gone or differs after the step
Touched(ref) ==
    \/ ref \notin DOMAIN pending_requests'
    \/ pending_requests'[ref] # pending_requests[ref]
\* C39: a pending-approval entry is removed only by the processing of a
\* reply whose In-Reply-To equals the entry's stored message id; the clock,
\* a monitor's poll, a new incident, a reply to nothing or to another
\* request, and the resolution of another incident leave it as it is
C39_OnlyMatchingReplyRemoves ==
    [][\A ref \in DOMAIN pending_requests :
          Touched(ref) =>
             /\ ref \notin DOMAIN pending_requests'
             /\ \E msg \in inbox :
                  /\ Delivered(msg)
                  /\ msg.in_reply_to # NoMessage
                  /\ msg.in_reply_to = pending_requests[ref].message_id]_vars
\* one request is still pending, as stored, after the monitor has ended
\* its call and a reply to another request has resolved that one
C39_Witness ==
    /\ poll = Idle
    /\ \E ref \in DOMAIN pending_requests, id \in DOMAIN matches :
          LET done == matches[id][1].ref IN
          /\ done # ref
          /\ done \notin DOMAIN pending_requests
          /\ done \in approvedRefs \cup declinedRefs
          /\ \E mail \in sentMail :
                mail.ref = ref /\ mail.id = pending_requests[ref].message_id

\* C40: the number of registered WebSocket observers never exceeds
\* MAX_CLIENTS, whatever the interleaving of connects, disconnects and
\* broadcasts, also when two connects pass the size test before either has
\* added its websocket
C40_ObserversBounded == Size <= MAX_CLIENTS

=========================================================================
